---- MODULE Spec2Model ----
(***************************************************************************)
(* threefive/descriptors.py: the SCTE-35 splice descriptors.  A byte slice *)
(* is handed to splice_descriptor, which picks the descriptor class by the *)
(* tag byte, constructs it and decodes it field by field with a bit cursor *)
(* (bitn.BitBin); the decoded descriptor can then be re-encoded with a bit *)
(* writer (bitn.NBin).                                                     *)
(*                                                                         *)
(* Python values are tagged records: None, PInt(n), PBool(b), PStr(s) (s  *)
(* the sequence of code points), FStr(label, v) for the f-string           *)
(* f"{label}:{v}", List(xs), Dict(r).                                      *)
(***************************************************************************)
EXTENDS Integers, Sequences, FiniteSets, TLC

VARIABLES
    bites,    \* the argument of splice_descriptor
    pc,       \* the position of the call in progress
    result,   \* what splice_descriptor returned
    d,        \* the descriptor instance (its attributes)
    idx,      \* BitBin.idx: the bits of d.bites not yet consumed
    nbin,     \* NBin: the bits written so far by the encode in progress
    caller,   \* who called encode: "decode" (Avail, DTMF) or "user"
    cnt,      \* the local loop counter (d_c, a_c, c_c)
    iters,    \* iterations run by the encode loop in progress
    encRet,   \* what the user's last encode call returned
    stderr,   \* the messages written by to_stderr
    exc       \* the exception that ended the call, "" when none

vars == <<bites, pc, result, d, idx, nbin, caller, cnt, iters, encRet, stderr, exc>>

(***************************************************************************)
(* Bounds of the model.                                                    *)
(***************************************************************************)
\* trailing bytes after segments_expected: 0 .. MaxTail
MaxTail == 3
\* declared length of the string-like UPID payloads: 0 .. MaxUpidLen
MaxUpidLen == 2
\* nested triples in a MID UPID: 0 .. MaxNested
MaxNested == 2
\* iterations after which a running encode loop is no longer followed
MaxIters == 16

(***************************************************************************)
(* Python values.                                                          *)
(***************************************************************************)
None == [t |-> "None"]
PInt(n) == [t |-> "int", v |-> n]
PBool(b) == [t |-> "bool", v |-> b]
PStr(s) == [t |-> "str", v |-> s]
\* a str written as a literal in the source
Lit(s) == [t |-> "lit", v |-> s]
FStr(label, val) == [t |-> "fstr", label |-> label, v |-> val]
List(xs) == [t |-> "list", v |-> xs]
Dict(r) == [t |-> "dict", v |-> r]

RECURSIVE Pow2(_)
Pow2(n) == IF n = 0 THEN 1 ELSE 2 * Pow2(n - 1)

\* "CUEI" and "0x43554549" as code points
CUEI == <<67, 85, 69, 73>>
CueiHex == <<48, 120, 52, 51, 53, 53, 52, 53, 52, 57>>

(***************************************************************************)
(* bitn.BitBin, the read side of the bit cursor: bits = the bytes as one   *)
(* big-endian number, idx = the bits left.  Reads return [ok, v, idx].     *)
(***************************************************************************)
\* bit p (0 = first bit of the first byte) of the byte sequence bs
BitAt(bs, p) == (bs[(p \div 8) + 1] \div Pow2(7 - (p % 8))) % 2

RECURSIVE UInt(_, _, _)
\* the n bits of bs starting at bit p, as an unsigned number
UInt(bs, p, n) == IF n = 0 THEN 0 ELSE 2 * UInt(bs, p, n - 1) + BitAt(bs, p + n - 1)

Pos(bs, i) == 8 * Len(bs) - i

Underrun == [ok |-> FALSE, exc |-> "BufferUnderrun"]
BadShift == [ok |-> FALSE, exc |-> "ValueError"]

\* BitBin.asint(num_bits)
asint(bs, i, n) ==
    IF n < 0 THEN BadShift
    ELSE IF i >= n THEN [ok |-> TRUE, v |-> PInt(UInt(bs, Pos(bs, i), n)), idx |-> i - n]
    ELSE Underrun

\* BitBin.asflag(1)
asflag(bs, i) ==
    IF i >= 1 THEN [ok |-> TRUE, v |-> PBool(UInt(bs, Pos(bs, i), 1) = 1), idx |-> i - 1]
    ELSE Underrun

\* BitBin.forward(num_bits)
forward(i, n) == i - n

\* BitBin.as90k(num_bits): ticks / 90000.0; kept as the tick count it is made of
as90k(bs, i, n) ==
    LET r == asint(bs, i, n)
    IN IF r.ok THEN [ok |-> TRUE, v |-> [t |-> "float90k", ticks |-> r.v.v], idx |-> r.idx]
       ELSE r

HexChar(h) == IF h < 10 THEN 48 + h ELSE 87 + h

RECURSIVE HexDigits(_, _, _)
\* the hex digits of the n bits at p, most significant first, zero padded
HexDigits(bs, p, n) ==
    IF n <= 0 THEN <<>>
    ELSE LET w == IF n % 4 = 0 THEN 4 ELSE n % 4
         IN <<UInt(bs, p, w)>> \o HexDigits(bs, p + w, n - w)

RECURSIVE StripZeros(_)
StripZeros(ds) ==
    IF Len(ds) = 0 THEN <<0>>
    ELSE IF Len(ds) > 1 /\ ds[1] = 0 THEN StripZeros(Tail(ds))
    ELSE ds

\* BitBin.ashex(num_bits): hex(asint(num_bits)), "0x" and no leading zeros
ashex(bs, i, n) ==
    IF n < 0 THEN BadShift
    ELSE IF i >= n
    THEN LET ds == StripZeros(HexDigits(bs, Pos(bs, i), n))
         IN [ok |-> TRUE,
             v |-> PStr(<<48, 120>> \o [k \in 1..Len(ds) |-> HexChar(ds[k])]),
             idx |-> i - n]
    ELSE Underrun

\* a byte decoded as text: ASCII as itself, anything else replaced by U+FFFD
DecodeByte(b) == IF b < 128 THEN b ELSE 65533

\* BitBin.asdecodedhex(num_bits): the next num_bits bits decoded as text
asdecodedhex(bs, i, n) ==
    IF n < 0 THEN BadShift
    ELSE IF i >= n
    THEN [ok |-> TRUE,
          v |-> PStr([k \in 1..(n \div 8) |-> DecodeByte(UInt(bs, Pos(bs, i) + 8 * (k - 1), 8))]),
          idx |-> i - n]
    ELSE Underrun

(***************************************************************************)
(* bitn.NBin, the write side: the bits written so far, as a sequence.      *)
(***************************************************************************)
RECURSIVE IntBits(_, _)
\* the low n bits of v, most significant first
IntBits(v, n) == IF n = 0 THEN <<>> ELSE IntBits(v \div 2, n - 1) \o <<v % 2>>

add_int(nb, v, n) == nb \o IntBits(v, n)
add_flag(nb, b) == nb \o <<IF b THEN 1 ELSE 0>>
nb_forward(nb, n) == nb \o [k \in 1..n |-> 0]

RECURSIVE HexVal(_)
HexVal(s) ==
    IF Len(s) = 0 THEN 0
    ELSE LET c == s[Len(s)]
         IN 16 * HexVal(SubSeq(s, 1, Len(s) - 1)) + (IF c >= 97 THEN c - 87 ELSE c - 48)

\* NBin.add_hex(hex_str, bit_len): int(hex_str, 16) written on bit_len bits
add_hex(nb, s, n) == add_int(nb, HexVal(SubSeq(s, 3, Len(s))), n)

RECURSIVE BitsVal(_)
BitsVal(bs) == IF Len(bs) = 0 THEN 0 ELSE 2 * BitsVal(SubSeq(bs, 1, Len(bs) - 1)) + bs[Len(bs)]

\* NBin.bites: the whole bytes written
nbin_bites(nb) == [k \in 1..(Len(nb) \div 8) |-> BitsVal(SubSeq(nb, 8 * k - 7, 8 * k))]

(***************************************************************************)
(* Reading a run of fields: each item names the attribute, the width and   *)
(* the BitBin method; "skip" is BitBin.forward.  The run stops at the      *)
(* first read that fails, keeping what was assigned before it.             *)
(***************************************************************************)
Fld(f, n, k) == [f |-> f, n |-> n, k |-> k]
Set(o, f, val) == (f :> val) @@ o

ReadOne(bs, i, it) ==
    CASE it.k = "int" -> asint(bs, i, it.n)
      [] it.k = "flag" -> asflag(bs, i)
      [] it.k = "hex" -> ashex(bs, i, it.n)
      [] it.k = "90k" -> as90k(bs, i, it.n)
      [] it.k = "str" -> asdecodedhex(bs, i, it.n)

RECURSIVE ReadFields(_, _, _, _)
ReadFields(bs, i, o, items) ==
    IF Len(items) = 0 THEN [ok |-> TRUE, o |-> o, idx |-> i, exc |-> ""]
    ELSE LET it == Head(items)
         IN IF it.k = "skip" THEN ReadFields(bs, forward(i, it.n), o, Tail(items))
            ELSE LET r == ReadOne(bs, i, it)
                 IN IF r.ok THEN ReadFields(bs, r.idx, Set(o, it.f, r.v), Tail(items))
                    ELSE [ok |-> FALSE, o |-> o, idx |-> i, exc |-> r.exc]

(***************************************************************************)
(* threefive/segmentation.py: table20 (device restrictions) and table22    *)
(* (segmentation type ids and their messages).                             *)
(***************************************************************************)
table20(i) ==
    CASE i = 0 -> Lit("Restrict Group 0")
      [] i = 1 -> Lit("Restrict Group 1")
      [] i = 2 -> Lit("Restrict Group 2")
      [] i = 3 -> Lit("No Restrictions")

table22_keys ==
    {0, 1} \cup (16..25) \cup (32..39) \cup (48..59) \cup {64, 65, 80, 81}

\* table22[k], the message of type id k
table22(k) == [t |-> "table22", k |-> k]

(***************************************************************************)
(* The constructors.                                                       *)
(***************************************************************************)
NoDescriptor == [name |-> "none"]

\* SpliceDescriptor.__init__(bites), bites not empty
SpliceDescriptorInit(b) ==
    [tag |-> PInt(b[1]),
     descriptor_length |-> PInt(b[2]),
     identifier |-> None,
     bites |-> SubSeq(b, 3, Len(b))]

AvailDescriptorInit(b) ==
    SpliceDescriptorInit(b) @@ [name |-> "Avail Descriptor", provider_avail_id |-> None]

DtmfDescriptorInit(b) ==
    SpliceDescriptorInit(b) @@
    [name |-> "DTMF Descriptor", preroll |-> None, dtmf_count |-> None, dtmf_chars |-> <<>>]

TimeDescriptorInit(b) ==
    SpliceDescriptorInit(b) @@
    [name |-> "Time Descriptor", tai_seconds |-> None, tai_ns |-> None, utc_offset |-> None]

AudioDescriptorInit(b) ==
    SpliceDescriptorInit(b) @@
    [name |-> "Audio Descriptor", components |-> <<>>, audio_count |-> None]

\* the attributes SegmentationDescriptor.__init__ adds, all unset
SegmentationDefaults ==
    [name |-> "Segmentation Descriptor",
     segmentation_event_id |-> None,
     segmentation_event_cancel_indicator |-> None,
     component_count |-> None,
     components |-> <<>>,
     program_segmentation_flag |-> None,
     segmentation_duration_flag |-> None,
     delivery_not_restricted_flag |-> None,
     web_delivery_allowed_flag |-> None,
     no_regional_blackout_flag |-> None,
     archive_allowed_flag |-> None,
     device_restrictions |-> None,
     segmentation_duration |-> None,
     segmentation_message |-> None,
     segmentation_upid_type |-> None,
     segmentation_upid_length |-> None,
     segmentation_upid |-> None,
     segmentation_type_id |-> None,
     segment_num |-> None,
     segments_expected |-> None,
     sub_segment_num |-> None,
     sub_segments_expected |-> None]

SegmentationDescriptorInit(b) == SpliceDescriptorInit(b) @@ SegmentationDefaults

\* the table with the classes of tags 2 and 3 exchanged
descriptor_map_swapped(tag, b) ==
    CASE tag = 0 -> AvailDescriptorInit(b)
      [] tag = 1 -> DtmfDescriptorInit(b)
      [] tag = 2 -> TimeDescriptorInit(b)
      [] tag = 3 -> SegmentationDescriptorInit(b)
      [] tag = 4 -> AudioDescriptorInit(b)

\* descriptor_map: tag -> class
descriptor_map_keys == 0..4

descriptor_map(tag, b) ==
    CASE tag = 0 -> AvailDescriptorInit(b)
      [] tag = 1 -> DtmfDescriptorInit(b)
      [] tag = 2 -> SegmentationDescriptorInit(b)
      [] tag = 3 -> TimeDescriptorInit(b)
      [] tag = 4 -> AudioDescriptorInit(b)

(***************************************************************************)
(* Outcomes shared by the steps.                                           *)
(***************************************************************************)
\* an exception leaves the call: nothing is returned
Raise(e) == pc' = "raised" /\ exc' = e

\* splice_descriptor returns the decoded instance
ReturnSpliced == pc' = "returned" /\ result' = "spliced" /\ exc' = ""

\* SpliceDescriptor.parse_id(bitbin), on a fresh BitBin(self.bites)
parse_id(o) ==
    ReadFields(o.bites, 8 * Len(o.bites), o, <<Fld("identifier", 32, "str")>>)

IdWarning == <<"Descriptors should have an identifier of \"CUEI\"", <<>>>>

\* what parse_id writes with to_stderr
parse_id_stderr(r) ==
    IF r.ok /\ r.o.identifier.v # CUEI THEN stderr \cup {IdWarning} ELSE stderr

(***************************************************************************)
(* splice_descriptor(bites)                                                *)
(***************************************************************************)
SpliceDescriptor ==
    /\ pc = "start"
    /\ UNCHANGED <<bites, idx, nbin, caller, cnt, iters, encRet, stderr>>
    /\ IF Len(bites) = 0
       THEN Raise("IndexError") /\ UNCHANGED <<d, result>>
       ELSE IF bites[1] \notin descriptor_map_keys
       THEN pc' = "returned" /\ result' = "False" /\ UNCHANGED <<d, exc>>
       ELSE IF Len(bites) < 2
       THEN Raise("IndexError") /\ UNCHANGED <<d, result>>
       ELSE /\ d' = descriptor_map(bites[1], bites)
            /\ pc' = "decode"
            /\ UNCHANGED <<result, exc>>

(***************************************************************************)
(* encode: SpliceDescriptor.encode builds the NBin with tag, length and    *)
(* identifier; the subclasses add their fields, print the bytes and return *)
(* nothing.                                                                *)
(***************************************************************************)
\* the return of encode to its caller
Return(val) ==
    /\ pc' = "returned"
    /\ exc' = ""
    /\ IF caller = "decode"
       THEN result' = "spliced" /\ UNCHANGED encRet
       ELSE encRet' = val /\ UNCHANGED result

DescriptorBytes(nb) == <<"descriptor bytes", nbin_bites(nb)>>

\* SpliceDescriptor.encode_meta(nbin)
encode_meta(o, nb) == add_int(add_int(nb, o.tag.v, 8), o.descriptor_length.v, 8)

\* SpliceDescriptor.encode_id(nbin): the identifier attribute it assigns
encode_id_identifier(o) == PStr(CueiHex)

\* SpliceDescriptor.encode_id(nbin): the bits it writes
encode_id(o, nb) == add_hex(nb, encode_id_identifier(o).v, 32)

\* a user's call of encode on the descriptor splice_descriptor returned
Encode ==
    /\ pc = "returned"
    /\ result = "spliced"
    /\ pc' = "encode"
    /\ caller' = "user"
    /\ UNCHANGED <<bites, result, d, idx, nbin, cnt, iters, encRet, stderr, exc>>

\* SpliceDescriptor.encode(), reached through super().encode() or, for the
\* Segmentation descriptor, which does not override it, directly
SpliceDescriptorEncode ==
    /\ pc = "encode"
    /\ d' = [d EXCEPT !.identifier = encode_id_identifier(d)]
    /\ nbin' = encode_id(d, encode_meta(d, <<>>))
    /\ UNCHANGED <<bites, idx, caller, cnt, iters, stderr>>
    /\ IF d.name = "Segmentation Descriptor"
       THEN Return([t |-> "NBin", bits |-> nbin'])
       ELSE /\ pc' = CASE d.name = "Avail Descriptor" -> "avail_encode"
                       [] d.name = "DTMF Descriptor" -> "dtmf_encode"
                       [] d.name = "Time Descriptor" -> "time_encode"
                       [] d.name = "Audio Descriptor" -> "audio_encode"
            /\ UNCHANGED <<result, encRet, exc>>

(***************************************************************************)
(* AvailDescriptor                                                         *)
(***************************************************************************)
AvailDecode ==
    /\ pc = "decode"
    /\ d.name = "Avail Descriptor"
    /\ LET r == parse_id(d)
           r2 == ReadFields(d.bites, r.idx, r.o, <<Fld("provider_avail_id", 32, "int")>>)
       IN /\ stderr' = parse_id_stderr(r)
          /\ IF ~r.ok
             THEN d' = r.o /\ idx' = r.idx /\ Raise(r.exc) /\ UNCHANGED caller
             ELSE /\ d' = r2.o
                  /\ idx' = r2.idx
                  /\ IF r2.ok
                     THEN pc' = "encode" /\ caller' = "decode" /\ UNCHANGED exc
                     ELSE Raise(r2.exc) /\ UNCHANGED caller
    /\ UNCHANGED <<bites, result, nbin, cnt, iters, encRet>>

AvailEncode ==
    /\ pc = "avail_encode"
    /\ nbin' = add_int(nbin, d.provider_avail_id.v, 32)
    /\ stderr' = stderr \cup {DescriptorBytes(nbin')}
    /\ Return(None)
    /\ UNCHANGED <<bites, d, idx, caller, cnt, iters>>

(***************************************************************************)
(* TimeDescriptor                                                          *)
(***************************************************************************)
TimeDecode ==
    /\ pc = "decode"
    /\ d.name = "Time Descriptor"
    /\ LET r == parse_id(d)
           r2 == ReadFields(d.bites, r.idx, r.o,
                            <<Fld("tai_seconds", 48, "int"), Fld("tai_ns", 32, "int"),
                              Fld("utc_offset", 16, "int")>>)
       IN /\ stderr' = parse_id_stderr(r)
          /\ IF ~r.ok
             THEN d' = r.o /\ idx' = r.idx /\ Raise(r.exc) /\ UNCHANGED result
             ELSE /\ d' = r2.o
                  /\ idx' = r2.idx
                  /\ IF r2.ok THEN ReturnSpliced ELSE Raise(r2.exc) /\ UNCHANGED result
    /\ UNCHANGED <<bites, nbin, caller, cnt, iters, encRet>>

TimeEncode ==
    /\ pc = "time_encode"
    /\ nbin' = add_int(add_int(add_int(nbin, d.tai_seconds.v, 48), d.tai_ns.v, 32),
                       d.utc_offset.v, 16)
    /\ stderr' = stderr \cup {DescriptorBytes(nbin')}
    /\ Return(None)
    /\ UNCHANGED <<bites, d, idx, caller, cnt, iters>>

(***************************************************************************)
(* DtmfDescriptor                                                          *)
(***************************************************************************)
\* the head of DtmfDescriptor.decode, up to its while loop
DtmfDecode ==
    /\ pc = "decode"
    /\ d.name = "DTMF Descriptor"
    /\ LET r == parse_id(d)
           r2 == ReadFields(d.bites, r.idx, r.o,
                            <<Fld("preroll", 8, "int"), Fld("dtmf_count", 3, "int"),
                              Fld("", 5, "skip")>>)
       IN /\ stderr' = parse_id_stderr(r)
          /\ IF ~r.ok
             THEN d' = r.o /\ idx' = r.idx /\ Raise(r.exc) /\ UNCHANGED cnt
             ELSE /\ d' = r2.o
                  /\ idx' = r2.idx
                  /\ IF r2.ok
                     THEN pc' = "dtmf_decode_loop" /\ cnt' = r2.o.dtmf_count.v /\ UNCHANGED exc
                     ELSE Raise(r2.exc) /\ UNCHANGED cnt
    /\ UNCHANGED <<bites, result, nbin, caller, iters, encRet>>

\* one test of "while d_c" in DtmfDescriptor.decode: a character is read,
\* or the loop is left and self.encode() is called
DtmfDecodeLoop ==
    /\ pc = "dtmf_decode_loop"
    /\ IF cnt # 0
       THEN LET r == asint(d.bites, idx, 8)
            IN /\ cnt' = cnt - 1
               /\ UNCHANGED caller
               /\ IF ~r.ok
                  THEN Raise(r.exc) /\ UNCHANGED <<d, idx>>
                  ELSE /\ idx' = r.idx
                       /\ IF r.v.v >= 128
                          THEN Raise("UnicodeDecodeError") /\ UNCHANGED d
                          ELSE /\ d' = [d EXCEPT !.dtmf_chars = Append(@, PStr(<<r.v.v>>))]
                               /\ UNCHANGED <<pc, exc>>
       ELSE /\ pc' = "encode"
            /\ caller' = "decode"
            /\ UNCHANGED <<d, idx, cnt, exc>>
    /\ UNCHANGED <<bites, result, nbin, iters, encRet, stderr>>

\* the head of DtmfDescriptor.encode, up to its while loop
DtmfEncode ==
    /\ pc = "dtmf_encode"
    /\ nbin' = nb_forward(add_int(add_int(nbin, d.preroll.v, 8), d.dtmf_count.v, 3), 5)
    /\ cnt' = 0
    /\ iters' = 0
    /\ pc' = "dtmf_encode_loop"
    /\ UNCHANGED <<bites, result, d, idx, caller, encRet, stderr, exc>>

\* one test of "while d_c < self.dtmf_count" in DtmfDescriptor.encode
DtmfEncodeLoop ==
    /\ pc = "dtmf_encode_loop"
    /\ IF cnt < d.dtmf_count.v
       THEN /\ iters < MaxIters
            /\ IF cnt + 1 > Len(d.dtmf_chars)
               THEN Raise("IndexError") /\ UNCHANGED <<nbin, cnt, iters>>
               ELSE /\ nbin' = add_int(nbin, d.dtmf_chars[cnt + 1].v[1], 8)
                    /\ cnt' = cnt + 1
                    /\ iters' = iters + 1
                    /\ UNCHANGED <<pc, exc>>
            /\ UNCHANGED <<result, encRet, stderr>>
       ELSE /\ stderr' = stderr \cup {DescriptorBytes(nbin)}
            /\ Return(None)
            /\ UNCHANGED <<nbin, cnt, iters>>
    /\ UNCHANGED <<bites, d, idx, caller>>

(***************************************************************************)
(* AudioDescriptor                                                         *)
(***************************************************************************)
\* the head of AudioDescriptor.decode, up to its while loop
AudioDecode ==
    /\ pc = "decode"
    /\ d.name = "Audio Descriptor"
    /\ LET r == parse_id(d)
           r2 == ReadFields(d.bites, r.idx, r.o,
                            <<Fld("audio_count", 4, "int"), Fld("", 4, "skip")>>)
       IN /\ stderr' = parse_id_stderr(r)
          /\ IF ~r.ok
             THEN d' = r.o /\ idx' = r.idx /\ Raise(r.exc) /\ UNCHANGED cnt
             ELSE /\ d' = r2.o
                  /\ idx' = r2.idx
                  /\ IF r2.ok
                     THEN pc' = "audio_decode_loop" /\ cnt' = r2.o.audio_count.v /\ UNCHANGED exc
                     ELSE Raise(r2.exc) /\ UNCHANGED cnt
    /\ UNCHANGED <<bites, result, nbin, caller, iters, encRet>>

AudioComponentFields ==
    <<Fld("component_tag", 8, "int"), Fld("ISO_code=", 24, "int"),
      Fld("bit_stream_mode", 3, "int"), Fld("num_channels", 4, "int"),
      Fld("full_srvc_audio", 1, "flag")>>

\* one test of "while a_c" in AudioDescriptor.decode
AudioDecodeLoop ==
    /\ pc = "audio_decode_loop"
    /\ IF cnt # 0
       THEN LET r == ReadFields(d.bites, idx, <<>>, AudioComponentFields)
            IN /\ cnt' = cnt - 1
               /\ idx' = r.idx
               /\ UNCHANGED result
               /\ IF r.ok
                  THEN /\ d' = [d EXCEPT !.components = Append(@, Dict(r.o))]
                       /\ UNCHANGED <<pc, exc>>
                  ELSE Raise(r.exc) /\ UNCHANGED d
       ELSE ReturnSpliced /\ UNCHANGED <<d, idx, cnt>>
    /\ UNCHANGED <<bites, nbin, caller, iters, encRet, stderr>>

\* the head of AudioDescriptor.encode, up to its while loop
AudioEncode ==
    /\ pc = "audio_encode"
    /\ nbin' = nb_forward(add_int(nbin, d.audio_count.v, 4), 4)
    /\ cnt' = 0
    /\ iters' = 0
    /\ pc' = "audio_encode_loop"
    /\ UNCHANGED <<bites, result, d, idx, caller, encRet, stderr, exc>>

\* the component written by one pass of the loop of AudioDescriptor.encode
AudioEncodeComponent(nb, comp) ==
    add_flag(add_int(add_int(add_int(add_int(nb, comp["component_tag"].v, 8),
                                     comp["ISO_code="].v, 24),
                             comp["bit_stream_mode"].v, 3),
                     comp["num_channels"].v, 4),
             comp["full_srvc_audio"].v)

\* a_c after one pass of the loop of AudioDescriptor.encode: the body never
\* assigns it
AudioEncodeNext(a_c) == a_c

\* one test of "while a_c < self.audio_count" in AudioDescriptor.encode
AudioEncodeLoop ==
    /\ pc = "audio_encode_loop"
    /\ IF cnt < d.audio_count.v
       THEN /\ iters < MaxIters
            /\ nbin' = AudioEncodeComponent(nbin, d.components[cnt + 1].v)
            /\ cnt' = AudioEncodeNext(cnt)
            /\ iters' = iters + 1
            /\ UNCHANGED <<pc, result, encRet, exc>>
       ELSE /\ Return(None)
            /\ UNCHANGED <<nbin, cnt, iters>>
    /\ UNCHANGED <<bites, d, idx, caller, stderr>>

(***************************************************************************)
(* SegmentationDescriptor: the UPID decoders.  Each takes the BitBin (its  *)
(* bytes bs and its idx i) and upid_length, and returns [ok, v, idx].      *)
(***************************************************************************)
Min(a, b) == IF a < b THEN a ELSE b

\* the Python slice s[a:b] of a str
Slice(s, a, b) == SubSeq(s, a + 1, Min(b, Len(s)))

RECURSIVE DecDigits(_)
\* str(n) of a number n >= 0
DecDigits(n) == IF n < 10 THEN <<48 + n>> ELSE DecDigits(n \div 10) \o <<48 + (n % 10)>>

RECURSIVE JoinChunks(_, _)
\* ".".join of the chunks of n characters of s
JoinChunks(s, n) ==
    IF Len(s) <= n THEN s
    ELSE SubSeq(s, 1, n) \o <<46>> \o JoinChunks(SubSeq(s, n + 1, Len(s)), n)

_air_id(bs, i, upid_length) == ashex(bs, i, upid_length * 8)

_atsc(bs, i, upid_length) ==
    LET r == ReadFields(bs, i, <<>>,
                        <<Fld("TSID", 16, "int"), Fld("reserved", 2, "int"),
                          Fld("end_of_day", 5, "int"), Fld("unique_for", 9, "int"),
                          Fld("content_id", (upid_length - 4) * 8, "str")>>)
    IN IF r.ok THEN [ok |-> TRUE, v |-> Dict(r.o), idx |-> r.idx]
       ELSE [ok |-> FALSE, exc |-> r.exc]

_isan(bs, i, upid_length) ==
    LET pre == <<48, 48, 48, 48, 45, 48, 48, 48, 48, 45>>
        middle == ashex(bs, i, upid_length * 8)
        post == <<45, 48, 48, 48, 48, 45, 90, 45, 48, 48, 48, 48, 45, 48, 48, 48, 48, 45, 54>>
    IN IF middle.ok
       THEN [middle EXCEPT !.v = PStr(pre \o Slice(middle.v.v, 2, 6) \o post)]
       ELSE middle

_mpu(bs, i, upid_length) ==
    LET b_c == upid_length * 8
        r == ReadFields(bs, i, <<>>,
                        <<Fld("format identifier", 32, "int"),
                          Fld("private data", b_c - 32, "int")>>)
    IN IF r.ok THEN [ok |-> TRUE, v |-> Dict(r.o), idx |-> r.idx]
       ELSE [ok |-> FALSE, exc |-> r.exc]

_eidr(bs, i, upid_length) ==
    LET pre == asint(bs, i, 16)
        post == ashex(bs, pre.idx, 80)
    IN IF ~pre.ok THEN pre
       ELSE IF ~post.ok THEN post
       ELSE [post EXCEPT !.v =
                PStr(<<49, 48, 46>> \o DecDigits(pre.v.v) \o <<47>>
                     \o Slice(post.v.v, 2, 6) \o <<45>> \o Slice(post.v.v, 6, 10) \o <<45>>
                     \o Slice(post.v.v, 10, 14) \o <<45>> \o Slice(post.v.v, 14, 18)
                     \o <<45, 84>>)]

_umid(bs, i, upid_length) ==
    LET h == ashex(bs, i, upid_length * 8)
    IN IF h.ok
       THEN [h EXCEPT !.v = PStr(JoinChunks(<<48>> \o SubSeq(h.v.v, 3, Len(h.v.v)), 8))]
       ELSE h

_uri(bs, i, upid_length) ==
    IF upid_length > 0 THEN asdecodedhex(bs, i, upid_length * 8)
    ELSE [ok |-> TRUE, v |-> None, idx |-> i]

\* the keys of upid_map and the label of each
upid_map_keys == 2..15

upid_label(upid_type) ==
    CASE upid_type = 2 -> "Deprecated"
      [] upid_type = 3 -> "Ad ID"
      [] upid_type = 4 -> "UMID"
      [] upid_type \in {5, 6} -> "ISAN"
      [] upid_type = 7 -> "TID"
      [] upid_type = 8 -> "AiringID"
      [] upid_type = 9 -> "ADI"
      [] upid_type = 10 -> "EIDR"
      [] upid_type = 11 -> "ATSC"
      [] upid_type = 12 -> "MPU"
      [] upid_type = 13 -> "MID"
      [] upid_type = 14 -> "ADS Info"
      [] upid_type = 15 -> "URI"

\* upid_id starting as None in place of the empty string
upid_default_none == None

\* upid_id before the dispatch: what an unmapped upid_type is left with
upid_default == PStr(<<>>)

RECURSIVE _set_segmentation_upid(_, _, _, _)
RECURSIVE _mid_loop(_, _, _, _)

\* the while loop of _mid: b_c the bits still to account for, upids the list
_mid_loop(bs, i, b_c, upids) ==
    IF b_c = 0 THEN [ok |-> TRUE, v |-> List(upids), idx |-> i]
    ELSE LET t == asint(bs, i, 8)
             l == asint(bs, t.idx, 8)
             u == _set_segmentation_upid(bs, l.idx, t.v.v, l.v.v)
         IN IF ~t.ok THEN t
            ELSE IF ~l.ok THEN l
            ELSE IF ~u.ok THEN u
            ELSE _mid_loop(bs, u.idx, b_c - 8 - 8 - l.v.v * 8, Append(upids, u.v))

_mid(bs, i, upid_length) == _mid_loop(bs, i, upid_length * 8, <<>>)

\* upid_map[upid_type][1](bitbin, upid_length)
upid_decode(bs, i, upid_type, upid_length) ==
    CASE upid_type \in {2, 3, 7, 9, 14, 15} -> _uri(bs, i, upid_length)
      [] upid_type = 4 -> _umid(bs, i, upid_length)
      [] upid_type \in {5, 6} -> _isan(bs, i, upid_length)
      [] upid_type = 8 -> _air_id(bs, i, upid_length)
      [] upid_type = 10 -> _eidr(bs, i, upid_length)
      [] upid_type = 11 -> _atsc(bs, i, upid_length)
      [] upid_type = 12 -> _mpu(bs, i, upid_length)
      [] upid_type = 13 -> _mid(bs, i, upid_length)

_set_segmentation_upid(bs, i, upid_type, upid_length) ==
    IF upid_type \in upid_map_keys
    THEN LET r == upid_decode(bs, i, upid_type, upid_length)
         IN IF r.ok /\ upid_type # 9
            THEN [r EXCEPT !.v = FStr(upid_label(upid_type), r.v)]
            ELSE r
    ELSE [ok |-> TRUE, v |-> upid_default, idx |-> i]

(***************************************************************************)
(* SegmentationDescriptor: decode and its steps.                           *)
(***************************************************************************)
\* the decode going on whatever the cancel indicator is
decode_continues_always(o) == TRUE

\* "if not self.segmentation_event_cancel_indicator" in decode
decode_continues(o) == ~o.segmentation_event_cancel_indicator.v

\* SegmentationDescriptor.decode, up to the call of _set_flags
SegmentationDecode ==
    /\ pc = "decode"
    /\ d.name = "Segmentation Descriptor"
    /\ LET r == parse_id(d)
           r2 == ReadFields(d.bites, r.idx, r.o,
                            <<Fld("segmentation_event_id", 32, "hex"),
                              Fld("segmentation_event_cancel_indicator", 1, "flag"),
                              Fld("", 7, "skip")>>)
       IN /\ stderr' = parse_id_stderr(r)
          /\ IF ~r.ok
             THEN d' = r.o /\ idx' = r.idx /\ Raise(r.exc) /\ UNCHANGED result
             ELSE /\ d' = r2.o
                  /\ idx' = r2.idx
                  /\ IF ~r2.ok THEN Raise(r2.exc) /\ UNCHANGED result
                     ELSE IF decode_continues(r2.o)
                     THEN pc' = "_set_flags" /\ UNCHANGED <<result, exc>>
                     ELSE ReturnSpliced
    /\ UNCHANGED <<bites, nbin, caller, cnt, iters, encRet>>

\* a padding of 4 bits in place of 5
skip_padding_short(i) == forward(i, 4)

\* "bitbin.forward(5)" in _set_flags
skip_padding(i) == forward(i, 5)

\* SegmentationDescriptor._set_flags(bitbin): [ok, o, idx, exc]
_set_flags(o, bs, i) ==
    LET r == ReadFields(bs, i, o,
                        <<Fld("program_segmentation_flag", 1, "flag"),
                          Fld("segmentation_duration_flag", 1, "flag"),
                          Fld("delivery_not_restricted_flag", 1, "flag")>>)
    IN IF ~r.ok THEN r
       ELSE IF ~r.o.delivery_not_restricted_flag.v
       THEN LET r2 == ReadFields(bs, r.idx, r.o,
                                 <<Fld("web_delivery_allowed_flag", 1, "flag"),
                                   Fld("no_regional_blackout_flag", 1, "flag"),
                                   Fld("archive_allowed_flag", 1, "flag"),
                                   Fld("device_restrictions", 2, "int")>>)
            IN IF r2.ok
               THEN [r2 EXCEPT !.o = Set(r2.o, "device_restrictions",
                                         table20(r2.o.device_restrictions.v))]
               ELSE r2
       ELSE [r EXCEPT !.idx = skip_padding(r.idx)]

SetFlags ==
    /\ pc = "_set_flags"
    /\ LET r == _set_flags(d, d.bites, idx)
       IN /\ d' = r.o
          /\ idx' = r.idx
          /\ IF ~r.ok THEN Raise(r.exc)
             ELSE /\ pc' = IF ~r.o.program_segmentation_flag.v
                           THEN "_set_components" ELSE "_set_segmentation"
                  /\ UNCHANGED exc
    /\ UNCHANGED <<bites, result, nbin, caller, cnt, iters, encRet, stderr>>

\* _set_components, up to its while loop
SetComponents ==
    /\ pc = "_set_components"
    /\ LET r == ReadFields(d.bites, idx, d, <<Fld("component_count", 8, "int")>>)
       IN /\ d' = r.o
          /\ idx' = r.idx
          /\ IF r.ok
             THEN pc' = "_set_components_loop" /\ cnt' = r.o.component_count.v /\ UNCHANGED exc
             ELSE Raise(r.exc) /\ UNCHANGED cnt
    /\ UNCHANGED <<bites, result, nbin, caller, iters, encRet, stderr>>

\* one test of "while c_c" in _set_components
SetComponentsLoop ==
    /\ pc = "_set_components_loop"
    /\ IF cnt # 0
       THEN LET r == ReadFields(d.bites, idx, <<>>,
                                <<Fld("component_tag", 8, "int"), Fld("", 7, "skip"),
                                  Fld("pts_offset", 33, "90k")>>)
            IN /\ cnt' = cnt - 1
               /\ idx' = r.idx
               /\ IF r.ok
                  THEN /\ d' = [d EXCEPT !.components = Append(@, Dict(r.o))]
                       /\ UNCHANGED <<pc, exc>>
                  ELSE Raise(r.exc) /\ UNCHANGED d
       ELSE pc' = "_set_segmentation" /\ UNCHANGED <<d, idx, cnt, exc>>
    /\ UNCHANGED <<bites, result, nbin, caller, iters, encRet, stderr>>

\* _set_segmentation, up to the call of _set_segmentation_upid
SetSegmentation ==
    /\ pc = "_set_segmentation"
    /\ LET dur == IF d.segmentation_duration_flag.v
                  THEN <<Fld("segmentation_duration", 40, "90k")>> ELSE <<>>
           r == ReadFields(d.bites, idx, d,
                           dur \o <<Fld("segmentation_upid_type", 8, "int"),
                                    Fld("segmentation_upid_length", 8, "int")>>)
       IN /\ d' = r.o
          /\ idx' = r.idx
          /\ IF r.ok THEN pc' = "_set_segmentation_upid" /\ UNCHANGED exc
             ELSE Raise(r.exc)
    /\ UNCHANGED <<bites, result, nbin, caller, cnt, iters, encRet, stderr>>

\* self.segmentation_upid = self._set_segmentation_upid(bitbin, type, length)
SetSegmentationUpid ==
    /\ pc = "_set_segmentation_upid"
    /\ LET r == _set_segmentation_upid(d.bites, idx, d.segmentation_upid_type.v,
                                       d.segmentation_upid_length.v)
       IN IF r.ok
          THEN /\ d' = [d EXCEPT !.segmentation_upid = r.v]
               /\ idx' = r.idx
               /\ pc' = "segmentation_type_id"
               /\ UNCHANGED exc
          ELSE Raise(r.exc) /\ UNCHANGED <<d, idx>>
    /\ UNCHANGED <<bites, result, nbin, caller, cnt, iters, encRet, stderr>>

\* the type ids whose descriptors carry sub segments
sub_segment_types == {52, 54, 56, 58}

\* the test written as "more than 16 bits left"
sub_segments_present_strict(i) == i > 16

\* "if bitbin.idx >= 16" in _set_segments
sub_segments_present(i) == i >= 16

\* SegmentationDescriptor._set_segments(bitbin): [ok, o, idx, exc]
_set_segments(o, bs, i) ==
    LET r == ReadFields(bs, i, o,
                        <<Fld("segment_num", 8, "int"), Fld("segments_expected", 8, "int")>>)
    IN IF ~r.ok THEN r
       ELSE IF o.segmentation_type_id.v \in sub_segment_types
       THEN IF sub_segments_present(r.idx)
            THEN ReadFields(bs, r.idx, r.o,
                            <<Fld("sub_segment_num", 8, "int"),
                              Fld("sub_segments_expected", 8, "int")>>)
            ELSE [r EXCEPT !.o = Set(Set(r.o, "sub_segments_expected", PInt(0)),
                                     "sub_segment_num", PInt(0))]
       ELSE r

\* _set_segmentation from the read of segmentation_type_id to the call of
\* _set_segments
SetSegmentationTypeId ==
    /\ pc = "segmentation_type_id"
    /\ LET r == ReadFields(d.bites, idx, d, <<Fld("segmentation_type_id", 8, "int")>>)
       IN IF ~r.ok THEN Raise(r.exc) /\ UNCHANGED <<d, idx, result>>
          ELSE /\ idx' = r.idx
               /\ IF r.o.segmentation_type_id.v \in table22_keys
                  THEN /\ d' = Set(r.o, "segmentation_message",
                                   table22(r.o.segmentation_type_id.v))
                       /\ pc' = "_set_segments"
                       /\ UNCHANGED <<result, exc>>
                  ELSE d' = r.o /\ ReturnSpliced
    /\ UNCHANGED <<bites, nbin, caller, cnt, iters, encRet, stderr>>

SetSegments ==
    /\ pc = "_set_segments"
    /\ LET r == _set_segments(d, d.bites, idx)
       IN /\ d' = r.o
          /\ idx' = r.idx
          /\ IF r.ok THEN ReturnSpliced ELSE Raise(r.exc) /\ UNCHANGED result
    /\ UNCHANGED <<bites, nbin, caller, cnt, iters, encRet, stderr>>

(***************************************************************************)
(* The byte slices handed to splice_descriptor.  Every slice is decoded    *)
(* from its bytes alone; the families below only choose which slices are   *)
(* tried.  Fields read as numbers of more than 31 bits are given values    *)
(* below 2^31.                                                             *)
(***************************************************************************)
XUEI == <<88, 85, 69, 73>>
Identifiers == {CUEI, XUEI}

\* a descriptor: tag, length of the payload, payload
Descriptor(tag, payload) == <<tag, Len(payload)>> \o payload

\* the proper prefixes of a slice: what a truncated buffer holds
Prefixes(x) == {SubSeq(x, 1, k) : k \in 0..(Len(x) - 1)}

AvailInputs ==
    {Descriptor(0, id \o <<a, b, b, c>>) :
        id \in Identifiers, a \in {0, 127}, b \in {0, 255}, c \in {0, 1, 255}}
    \cup Prefixes(Descriptor(0, CUEI \o <<0, 0, 0, 1>>))

TimeInputs ==
    {Descriptor(3, id \o s \o n \o u) :
        id \in Identifiers,
        s \in {<<0, 0, 0, 0, 0, 0>>, <<0, 0, 94, 11, 226, 37>>},
        n \in {<<0, 0, 0, 0>>, <<59, 154, 201, 255>>},
        u \in {<<0, 0>>, <<0, 37>>, <<255, 255>>}}
    \cup Prefixes(Descriptor(3, CUEI \o <<0, 0, 94, 11, 226, 37, 0, 0, 0, 1, 0, 37>>))

\* the characters of a DTMF descriptor: kind 1 all "1", kind 2 "1", "#", "*"
\* in turn, kind 3 a byte that is no UTF-8 text in the last place
DtmfChars(c, kind) ==
    [i \in 1..c |->
        CASE kind = 1 -> 49
          [] kind = 2 -> <<49, 35, 42>>[(i % 3) + 1]
          [] kind = 3 -> IF i = c THEN 200 ELSE 49]

DtmfInputs ==
    {Descriptor(1, id \o <<preroll, c * 32 + reserved>> \o DtmfChars(c, kind)) :
        id \in {CUEI}, preroll \in {0, 177}, c \in 0..7, reserved \in {0, 31},
        kind \in 1..3}
    \cup Prefixes(Descriptor(1, CUEI \o <<177, 95, 49, 35>>))

\* component i of an Audio descriptor
AudioComponent(i, kind) ==
    IF kind = 1 THEN <<i, 101, 110, 103, 91>> ELSE <<255 - i, 0, 0, 1, 164>>

RECURSIVE AudioComponents(_, _)
AudioComponents(c, kind) ==
    IF c = 0 THEN <<>> ELSE AudioComponents(c - 1, kind) \o AudioComponent(c, kind)

AudioInputs ==
    {Descriptor(4, id \o <<c * 16 + reserved>> \o AudioComponents(c, kind)) :
        id \in {CUEI}, c \in 0..15, reserved \in {0, 15}, kind \in 1..2}
    \cup Prefixes(Descriptor(4, CUEI \o <<31>> \o AudioComponents(1, 1)))

UnknownTagInputs ==
    {<<tag>> \o rest : tag \in {5, 128, 255}, rest \in {<<>>, <<0>>, <<4>> \o CUEI}}

\* the bytes after the UPID: type id, segment_num, segments_expected, then
\* 0 .. MaxTail more bytes
Tails == {[i \in 1..k |-> 2 + i] : k \in 0..MaxTail}
TypeIds == {52, 54, 56, 58, 48, 16, 53, 2, 255}
Trailer(type_id, tail) == <<type_id, 1, 2>> \o tail

\* UPID payloads of L bytes: text, or a byte that is no text and digits
Payloads(L) == {[i \in 1..L |-> 64 + i], [i \in 1..L |-> IF i = 1 THEN 255 ELSE 48]}

EidrBytes == <<0, 20, 1, 35, 69, 103, 137, 171, 205, 239, 1, 2>>

\* upid_type, upid_length and payload, for the decoders that take any length
PlainUpidTypes == {0, 1, 2, 3, 4, 5, 6, 7, 8, 9, 14, 15, 16, 255}

PlainUpids ==
    UNION {{<<t, L>> \o pl : t \in PlainUpidTypes, pl \in Payloads(L)} : L \in 0..MaxUpidLen}

\* the decoders with a fixed layout, with lengths that fit it and that do not
FixedUpids ==
    {<<10, 12>> \o EidrBytes, <<10, 0>>, <<10, 2, 65, 66>>, <<10, 13>> \o EidrBytes \o <<7>>,
     <<11, 4, 0, 9, 255, 1>>, <<11, 6, 0, 9, 129, 255, 65, 66>>, <<11, 2, 0, 9>>,
     <<12, 4, 65, 66, 67, 68>>, <<12, 6, 65, 66, 67, 68, 0, 7>>, <<12, 3, 65, 66, 67>>,
     <<8, 8, 0, 0, 0, 0, 44, 180, 208, 92>>,
     <<5, 8, 0, 0, 0, 1, 2, 3, 4, 5>>,
     <<6, 12, 18, 52, 86, 120, 154, 188, 222, 240, 1, 2, 3, 4>>}

\* the triples nested in a MID UPID
NestedTriples ==
    {<<15, L>> \o [i \in 1..L |-> 96 + i] : L \in 0..MaxUpidLen}
    \cup {<<1, 1, 65>>, <<1, 0>>, <<13, 0>>, <<8, 1, 7>>, <<9, 1, 66>>}

RECURSIVE MidBodies(_)
MidBodies(n) ==
    IF n = 0 THEN {<<>>}
    ELSE LET prev == MidBodies(n - 1)
         IN prev \cup {b \o t : b \in prev, t \in NestedTriples}

\* MID UPIDs whose declared length is the length of the nested triples, and
\* two whose declared length is not
MidUpids ==
    {<<13, Len(b)>> \o b : b \in MidBodies(MaxNested)}
    \cup {<<13, 5, 15, 1, 97, 15, 0>>, <<13, 2, 15, 1, 97>>}

Upids == PlainUpids \cup FixedUpids \cup MidUpids

DefaultUpid == <<15, 2, 65, 66>>
\* program segmentation, no duration, delivery not restricted, padding of ones
DefaultFlags == 128 + 32 + 31

\* the flag byte: program_segmentation_flag, segmentation_duration_flag,
\* delivery_not_restricted_flag, then five bits
FlagBytes ==
    {128 * p + 64 * du + 32 * dn + low :
        p \in {0, 1}, du \in {0, 1}, dn \in {0, 1}, low \in {0, 21, 31}}

ComponentLists ==
    {<<0>>, <<1, 1, 254, 0, 1, 95, 144>>,
     <<2, 1, 254, 0, 1, 95, 144, 2, 0, 127, 255, 255, 255>>}

Duration == <<0, 0, 41, 50, 224>>

\* what follows the cancel byte when the flag byte is f
Body(f, comps, upid, type_id, tail) ==
    <<f>> \o (IF f < 128 THEN comps ELSE <<>>)
          \o (IF (f \div 64) % 2 = 1 THEN Duration ELSE <<>>)
          \o upid \o Trailer(type_id, tail)

Bodies ==
    {Body(f, comps, DefaultUpid, type_id, tail) :
        f \in FlagBytes, comps \in ComponentLists, type_id \in {52, 48},
        tail \in {<<>>, <<3, 4>>}}
    \cup {Body(DefaultFlags, <<>>, upid, type_id, tail) :
        upid \in Upids, type_id \in {52, 16, 255}, tail \in Tails}
    \cup {Body(DefaultFlags, <<>>, upid, type_id, tail) :
        upid \in {DefaultUpid, <<0, 0>>}, type_id \in TypeIds, tail \in Tails}

EventId == <<72, 0, 0, 45>>

\* the cancel byte: segmentation_event_cancel_indicator and seven bits
CancelBytes == {127, 255}

SegmentationInputs ==
    {Descriptor(2, CUEI \o EventId \o <<c>> \o b) : c \in CancelBytes, b \in Bodies}
    \cup {Descriptor(2, XUEI \o EventId \o <<c>> \o Body(63, <<0>>, DefaultUpid, 52, <<3, 4>>)) :
            c \in {0, 128}}
    \cup Prefixes(Descriptor(2, CUEI \o EventId \o <<127>>
                                \o Body(95, <<1, 1, 254, 0, 1, 95, 144>>, DefaultUpid, 52,
                                        <<3, 4>>)))

Inputs ==
    AvailInputs \cup DtmfInputs \cup SegmentationInputs \cup TimeInputs \cup AudioInputs
    \cup UnknownTagInputs

(***************************************************************************)
(* The specification.                                                      *)
(***************************************************************************)
NoCall == [t |-> "nocall"]

Init ==
    /\ bites \in Inputs
    /\ pc = "start"
    /\ result = "pending"
    /\ d = NoDescriptor
    /\ idx = 0
    /\ nbin = <<>>
    /\ caller = ""
    /\ cnt = 0
    /\ iters = 0
    /\ encRet = NoCall
    /\ stderr = {}
    /\ exc = ""

Next ==
    \/ SpliceDescriptor
    \/ AvailDecode
    \/ DtmfDecode
    \/ DtmfDecodeLoop
    \/ TimeDecode
    \/ AudioDecode
    \/ AudioDecodeLoop
    \/ SegmentationDecode
    \/ SetFlags
    \/ SetComponents
    \/ SetComponentsLoop
    \/ SetSegmentation
    \/ SetSegmentationUpid
    \/ SetSegmentationTypeId
    \/ SetSegments
    \/ Encode
    \/ SpliceDescriptorEncode
    \/ AvailEncode
    \/ DtmfEncode
    \/ DtmfEncodeLoop
    \/ TimeEncode
    \/ AudioEncode
    \/ AudioEncodeLoop

Spec == Init /\ [][Next]_vars

(***************************************************************************)
(* Properties.                                                             *)
(***************************************************************************)
IsSegmentation == result = "spliced" /\ d.name = "Segmentation Descriptor"
SimpleNames == {"Avail Descriptor", "DTMF Descriptor", "Time Descriptor", "Audio Descriptor"}
EncodePcs ==
    {"encode", "avail_encode", "dtmf_encode", "dtmf_encode_loop", "time_encode",
     "audio_encode", "audio_encode_loop"}

\* the slice with its four identifier bytes replaced by "CUEI"
WithCuei(b) == [k \in 1..Len(b) |-> IF k \in 3..6 THEN CUEI[k - 2] ELSE b[k]]

\* C1: once a user's encode of a decoded Avail, DTMF, Time or Audio descriptor
\* has returned, what it returned is the bytes of the slice that was decoded,
\* with "CUEI" as the identifier.
C1_RoundTrip ==
    (pc = "returned" /\ result = "spliced" /\ d.name \in SimpleNames /\ encRet # NoCall)
        => (encRet.t = "bytes" /\ encRet.v = WithCuei(bites))

\* C2: the UPID step of the Segmentation decode consumes upid_length bytes,
\* whatever upid_type is.
C2_UpidConsumesLength ==
    [][(pc = "_set_segmentation_upid" /\ pc' = "segmentation_type_id")
        => idx' = idx - 8 * d.segmentation_upid_length.v]_vars

\* the byte k bytes past the cursor, when idx bits are left
ByteAhead(k) == d.bites[Len(d.bites) - (idx \div 8) + 1 + k]

\* C3, as amended: after segments_expected, sub_segment_num and
\* sub_segments_expected are read (8 bits each) exactly when type_id is one of
\* 0x34, 0x36, 0x38, 0x3A and at least 16 bits are left; when type_id is one of
\* the four and fewer than 16 bits are left both are 0; for any other type_id
\* both stay unset.
C3_SubSegments ==
    [][/\ (pc = "_set_segments" /\ pc' = "returned")
            => LET left == idx - 16
                   four == d.segmentation_type_id.v \in {52, 54, 56, 58}
               IN IF four /\ left >= 16
                  THEN /\ d'.sub_segment_num = PInt(ByteAhead(2))
                       /\ d'.sub_segments_expected = PInt(ByteAhead(3))
                       /\ idx' = left - 16
                  ELSE IF four
                  THEN /\ d'.sub_segment_num = PInt(0)
                       /\ d'.sub_segments_expected = PInt(0)
                       /\ idx' = left
                  ELSE /\ d'.sub_segment_num = None
                       /\ d'.sub_segments_expected = None
                       /\ idx' = left
       /\ (pc = "segmentation_type_id" /\ pc' = "returned")
            => (d'.sub_segment_num = None /\ d'.sub_segments_expected = None)]_vars

\* C3 witness: a type id of 0x34 with exactly 16 bits left after
\* segments_expected: both sub segment fields were read from them.
C3_Witness ==
    /\ pc = "returned"
    /\ IsSegmentation
    /\ d.segmentation_type_id.t = "int"
    /\ d.segmentation_type_id.v = 52
    /\ d.sub_segment_num = PInt(3)
    /\ d.sub_segments_expected = PInt(4)
    /\ idx = 0

\* C3 as stated: the sub segment fields are read exactly when type_id is one
\* of the four and at least 16 bits are left, and are 0 in every other case.
C3_Original ==
    [][/\ (pc = "_set_segments" /\ pc' = "returned")
            => LET left == idx - 16
                   four == d.segmentation_type_id.v \in {52, 54, 56, 58}
               IN IF four /\ left >= 16
                  THEN /\ d'.sub_segment_num = PInt(ByteAhead(2))
                       /\ d'.sub_segments_expected = PInt(ByteAhead(3))
                  ELSE /\ d'.sub_segment_num = PInt(0)
                       /\ d'.sub_segments_expected = PInt(0)
       /\ (pc = "segmentation_type_id" /\ pc' = "returned")
            => (d'.sub_segment_num = PInt(0) /\ d'.sub_segments_expected = PInt(0))]_vars

RECURSIVE NestedTriplesIn(_, _, _)
\* the number of {upid_type, upid_length, upid} triples that fill exactly n
\* bytes of bs from byte p on, -1 when they do not
NestedTriplesIn(bs, p, n) ==
    IF n = 0 THEN 0
    ELSE IF n < 2 \/ p + 1 > Len(bs) THEN -1
    ELSE LET l == bs[p + 1]
             rest == IF 2 + l > n THEN -1 ELSE NestedTriplesIn(bs, p + 2 + l, n - 2 - l)
         IN IF rest < 0 THEN -1 ELSE 1 + rest

\* C4: a MID UPID whose declared length is the sum of (2 + nested length) over
\* its nested triples decodes to one element per triple and consumes exactly
\* the declared length.
C4_MidConsumesLength ==
    [][LET L == d.segmentation_upid_length.v
           n == NestedTriplesIn(d.bites, Len(d.bites) - (idx \div 8) + 1, L)
       IN (/\ pc = "_set_segmentation_upid"
           /\ d.segmentation_upid_type.v = 13
           /\ idx >= 8 * L
           /\ n >= 0)
            => /\ pc' = "segmentation_type_id"
               /\ idx' = idx - 8 * L
               /\ Len(d'.segmentation_upid.v.v) = n]_vars

\* the attributes of steps 3 to 8 of the Segmentation decode
CascadeFields ==
    {"program_segmentation_flag", "segmentation_duration_flag",
     "delivery_not_restricted_flag", "web_delivery_allowed_flag",
     "no_regional_blackout_flag", "archive_allowed_flag", "device_restrictions",
     "component_count", "segmentation_duration", "segmentation_upid_type",
     "segmentation_upid_length", "segmentation_upid", "segmentation_type_id",
     "segment_num", "segments_expected", "sub_segment_num", "sub_segments_expected"}

Cancelled ==
    /\ d.name = "Segmentation Descriptor"
    /\ d.segmentation_event_cancel_indicator.t = "bool"
    /\ d.segmentation_event_cancel_indicator.v

\* C5: when segmentation_event_cancel_indicator is read as set, the decode
\* stops after the cancel byte (9 bytes into the payload) and every attribute
\* of steps 3 to 8 keeps the value the constructor gave it, whatever follows.
C5_CancelStops ==
    Cancelled =>
        /\ pc \in {"returned"} \cup EncodePcs
        /\ idx = 8 * (Len(d.bites) - 9)
        /\ \A f \in CascadeFields : d[f] = None
        /\ d.components = <<>>

\* C5 witness: a cancelled descriptor was returned with bytes left unread.
C5_Witness == pc = "returned" /\ result = "spliced" /\ Cancelled /\ idx >= 8 * 8

\* C6: the flag step consumes exactly 8 bits; when
\* delivery_not_restricted_flag is read as true the three sub flags and
\* device_restrictions stay unset (the 5 bits are skipped), otherwise all four
\* are set.
C6_FlagByte ==
    [][(pc = "_set_flags" /\ pc' # "raised")
        => /\ idx' = idx - 8
           /\ d'.delivery_not_restricted_flag = PBool((ByteAhead(0) \div 32) % 2 = 1)
           /\ IF d'.delivery_not_restricted_flag.v
              THEN /\ d'.web_delivery_allowed_flag = None
                   /\ d'.no_regional_blackout_flag = None
                   /\ d'.archive_allowed_flag = None
                   /\ d'.device_restrictions = None
              ELSE /\ d'.web_delivery_allowed_flag.t = "bool"
                   /\ d'.no_regional_blackout_flag.t = "bool"
                   /\ d'.archive_allowed_flag.t = "bool"
                   /\ d'.device_restrictions.t = "lit"]_vars

\* C6 witness: the flag step has run on a flag byte with
\* delivery_not_restricted_flag set and five padding bits that are not all
\* ones, and the next field starts on the following byte.
C6_Witness ==
    /\ pc = "_set_segmentation"
    /\ d.delivery_not_restricted_flag = PBool(TRUE)
    /\ d.bites[10] % 32 = 21
    /\ idx = 8 * (Len(d.bites) - 10)

\* C7: no step of a user's encode changes an attribute of the descriptor.
C7_EncodePure ==
    [][(pc \in EncodePcs /\ caller = "user") => d' = d]_vars

\* C8: splice_descriptor returns, for a tag in 0..4, the decoded descriptor of
\* the class of that tag, with tag and length the first two bytes of the
\* slice; for any other tag it returns False and nothing is constructed or
\* decoded.
C8_RegistryLookup ==
    /\ pc = "returned" =>
         IF bites[1] \in 0..4
         THEN /\ result = "spliced"
              /\ d.name = CASE bites[1] = 0 -> "Avail Descriptor"
                            [] bites[1] = 1 -> "DTMF Descriptor"
                            [] bites[1] = 2 -> "Segmentation Descriptor"
                            [] bites[1] = 3 -> "Time Descriptor"
                            [] bites[1] = 4 -> "Audio Descriptor"
              /\ d.tag = PInt(bites[1])
              /\ d.descriptor_length = PInt(bites[2])
              /\ d.identifier.t = "str"
         ELSE result = "False"
    /\ (Len(bites) > 0 /\ bites[1] \notin 0..4) =>
         /\ d = NoDescriptor
         /\ pc \in {"start", "returned"}
         /\ idx = 0
         /\ stderr = {}

\* C8 witness: a slice with tag 2 came back as a decoded descriptor.
C8_Witness ==
    /\ pc = "returned"
    /\ result = "spliced"
    /\ bites[1] = 2
    /\ d.segmentation_event_id.t = "str"

UnmappedUpidType ==
    /\ d.name = "Segmentation Descriptor"
    /\ d.segmentation_upid_type.t = "int"
    /\ d.segmentation_upid_type.v \notin 2..15

\* C9: for a upid_type with no entry in upid_map the UPID step raises
\* nothing and leaves the empty string as the upid, and the decode goes on to
\* read segmentation_type_id.
C9_UnmappedUpid ==
    [][/\ (pc = "_set_segmentation_upid" /\ UnmappedUpidType)
            => /\ pc' = "segmentation_type_id"
               /\ exc' = ""
               /\ d'.segmentation_upid = PStr(<<>>)
       /\ (pc = "segmentation_type_id" /\ UnmappedUpidType /\ idx >= 8)
            => /\ pc' \in {"_set_segments", "returned"}
               /\ d'.segmentation_type_id = PInt(ByteAhead(0))]_vars

\* C9 witness: a descriptor with upid_type 0x01 and a declared length of 1 was
\* decoded to the end, its upid the empty string.
C9_Witness ==
    /\ pc = "returned"
    /\ result = "spliced"
    /\ UnmappedUpidType
    /\ d.segmentation_upid_type.v = 1
    /\ d.segmentation_upid_length.v = 1
    /\ d.segmentation_upid = PStr(<<>>)
    /\ d.segmentation_type_id.t = "int"

\* C10: the loop of encode never runs more iterations than the count of the
\* descriptor (audio_count, dtmf_count).
C10_EncodeLoopEnds ==
    /\ pc = "audio_encode_loop" => iters <= d.audio_count.v
    /\ pc = "dtmf_encode_loop" => iters <= d.dtmf_count.v

====
